---- MODULE Spec2Model ----
(***************************************************************************)
(* Model of bevy_egui's texture loader (src/texture_loader.rs):            *)
(* BevyTextureLoader { map, new, user_id_counter }, its TextureLoader      *)
(* implementation (load, forget, forget_all), the option codec and the     *)
(* uri codec, run by several threads.  The two egui Mutexes are modelled   *)
(* with explicit holders, the AtomicU64 by an atomic step.                 *)
(*                                                                         *)
(* Strings are sequences of one-character strings, so that starts_with,    *)
(* slicing and parsing are computed character by character.  A u64 is four *)
(* 16-bit limbs, most significant first; a u32 is two.  Option<T> is a     *)
(* sequence of length 0 (None) or 1 (Some).                                *)
(***************************************************************************)
EXTENDS Integers, Sequences, FiniteSets, Bags, TLC

(***************************************************************************)
(* Bounds of the model                                                     *)
(***************************************************************************)
\* ids the counter may hand out in one run (the counter itself is a u64):
\* in the concurrent runs with one valid uri,
MaxAlloc == 3
\* in the concurrent runs with two valid uris,
MaxAllocKeys == 2
\* in the sequential runs,
MaxAllocSeq == 2
\* in the runs with the backend,
MaxAllocBackend == 3
\* and in the runs with the backend under fairness
MaxAllocFair == 2

Threads == {1, 2}
\* the decode backend, a further caller of the loader
Backend == 3
Procs == Threads \cup {Backend}

(***************************************************************************)
(* Option<T>                                                               *)
(***************************************************************************)
None == <<>>
Some(x) == <<x>>
IsSome(o) == Len(o) = 1
Unwrap(o) == o[1]

(***************************************************************************)
(* Strings                                                                 *)
(***************************************************************************)
starts_with(s, p) ==
    /\ Len(s) >= Len(p)
    /\ \A i \in 1..Len(p) : s[i] = p[i]

\* &s[n..] : the string without its first n bytes
SliceFrom(s, n) == SubSeq(s, n + 1, Len(s))

SchemePrefix == <<"b", "e", "v", "y", ":", "/", "/">>
UuidPrefix == <<"u", "u", "i", "d", "/">>
IndexPrefix == <<"i", "n", "d", "e", "x", "/">>

(***************************************************************************)
(* u64 arithmetic on 16-bit limbs                                          *)
(***************************************************************************)
LimbBase == 65536

U64Zero == <<0, 0, 0, 0>>

\* v * 10 + d, with the carry out of the top limb (nonzero: overflow)
MulAdd10(v, d) ==
    LET t4 == v[4] * 10 + d
        t3 == v[3] * 10 + (t4 \div LimbBase)
        t2 == v[2] * 10 + (t3 \div LimbBase)
        t1 == v[1] * 10 + (t2 \div LimbBase)
    IN  [value |-> <<t1 % LimbBase, t2 % LimbBase, t3 % LimbBase, t4 % LimbBase>>,
         carry |-> t1 \div LimbBase]

\* v >> 32 and v << 32 on u64 (the bits shifted out are lost)
Shr32(v) == <<0, 0, v[1], v[2]>>
Shl32(v) == <<v[3], v[4], 0, 0>>
\* v as u32
AsU32(v) == <<v[3], v[4]>>

DigitChars == <<"0", "1", "2", "3", "4", "5", "6", "7", "8", "9">>
IsDigit(c) == \E i \in 1..10 : DigitChars[i] = c
DigitVal(c) == (CHOOSE i \in 1..10 : DigitChars[i] = c) - 1

Ok(v) == [ok |-> TRUE, value |-> v]
Err == [ok |-> FALSE, value |-> U64Zero]

RECURSIVE ParseDigits(_, _, _)
ParseDigits(s, i, acc) ==
    IF i > Len(s) THEN Ok(acc)
    ELSE IF ~IsDigit(s[i]) THEN Err
    ELSE LET r == MulAdd10(acc, DigitVal(s[i]))
         IN  IF r.carry # 0 THEN Err ELSE ParseDigits(s, i + 1, r.value)

\* str::parse::<u64>: an optional leading '+', then one or more decimal
\* digits; empty input, a lone sign, any other character and overflow fail
parse_u64(s) ==
    IF Len(s) = 0 THEN Err
    ELSE IF s[1] = "+" \/ s[1] = "-"
         THEN IF Len(s) = 1 THEN Err
              ELSE IF s[1] = "+" THEN ParseDigits(s, 2, U64Zero) ELSE Err
         ELSE ParseDigits(s, 1, U64Zero)

(***************************************************************************)
(* Uuid text (uuid crate, Uuid::from_str): 32 hex digits; or the           *)
(* hyphenated 8-4-4-4-12 form, bare, in braces, or after "urn:uuid:".      *)
(* Upper and lower case hex digits are the same.  A Uuid is 32 nibbles.    *)
(***************************************************************************)
HexChars == <<"0", "1", "2", "3", "4", "5", "6", "7", "8", "9",
              "a", "b", "c", "d", "e", "f">>
HexUpper == <<"A", "B", "C", "D", "E", "F">>
IsHex(c) == (\E i \in 1..16 : HexChars[i] = c) \/ (\E i \in 1..6 : HexUpper[i] = c)
HexVal(c) ==
    IF \E i \in 1..16 : HexChars[i] = c
    THEN (CHOOSE i \in 1..16 : HexChars[i] = c) - 1
    ELSE (CHOOSE i \in 1..6 : HexUpper[i] = c) + 9

UrnPrefix == <<"u", "r", "n", ":", "u", "u", "i", "d", ":">>
HyphenAt == {9, 14, 19, 24}

parse_simple(s) ==
    IF Len(s) = 32 /\ \A i \in 1..32 : IsHex(s[i])
    THEN Ok([i \in 1..32 |-> HexVal(s[i])])
    ELSE Err

parse_hyphenated(s) ==
    IF /\ Len(s) = 36
       /\ \A i \in 1..36 : IF i \in HyphenAt THEN s[i] = "-" ELSE IsHex(s[i])
    THEN parse_simple(SelectSeq(s, LAMBDA c : c # "-"))
    ELSE Err

parse_uuid(s) ==
    IF Len(s) = 32 THEN parse_simple(s)
    ELSE IF Len(s) = 36 THEN parse_hyphenated(s)
    ELSE IF Len(s) = 38 /\ s[1] = "{" /\ s[38] = "}"
         THEN parse_hyphenated(SubSeq(s, 2, 37))
    ELSE IF Len(s) = 45 /\ starts_with(s, UrnPrefix)
         THEN parse_hyphenated(SliceFrom(s, 9))
    ELSE Err

(***************************************************************************)
(* AssetId<Image>: Index { generation: u32, index: u32 } or Uuid { uuid }  *)
(***************************************************************************)
AssetIdIndex(generation, index) ==
    [kind |-> "Index", generation |-> generation, index |-> index, uuid |-> <<>>]
AssetIdUuid(uuid) ==
    [kind |-> "Uuid", generation |-> <<0, 0>>, index |-> <<0, 0>>, uuid |-> uuid]

\* load, lines 96-115: the uri (its "bevy://" already checked) to an AssetId
ParseBevyId(uri) ==
    LET uri_remainder == SliceFrom(uri, 7)
    IN  IF starts_with(uri_remainder, UuidPrefix)
        THEN LET uuid == parse_uuid(SliceFrom(uri_remainder, 5))
             IN  IF uuid.ok THEN Ok(AssetIdUuid(uuid.value)) ELSE Err
        ELSE IF starts_with(uri_remainder, IndexPrefix)
        THEN LET index == parse_u64(SliceFrom(uri_remainder, 6))
             IN  IF index.ok
                 THEN Ok(AssetIdIndex(AsU32(Shr32(index.value)),
                                      AsU32(Shr32(Shl32(index.value)))))
                 ELSE Err
        ELSE Err

(***************************************************************************)
(* TextureOptions and the option codec                                     *)
(***************************************************************************)
TextureFilter == {"Nearest", "Linear"}
TextureWrapMode == {"ClampToEdge", "Repeat", "MirroredRepeat"}
TextureOptions ==
    [magnification : TextureFilter, minification : TextureFilter,
     wrap_mode : TextureWrapMode]

RECURSIVE BitOr(_, _)
BitOr(a, b) ==
    IF a = 0 THEN b
    ELSE IF b = 0 THEN a
    ELSE (IF a % 2 = 1 \/ b % 2 = 1 THEN 1 ELSE 0) + 2 * BitOr(a \div 2, b \div 2)

RECURSIVE BitAnd(_, _)
BitAnd(a, b) ==
    IF a = 0 \/ b = 0 THEN 0
    ELSE (IF a % 2 = 1 /\ b % 2 = 1 THEN 1 ELSE 0) + 2 * BitAnd(a \div 2, b \div 2)

texture_option_bits(options) ==
    LET magnification == IF options.magnification = "Nearest" THEN 0 ELSE 1
        minification == IF options.minification = "Nearest" THEN 0 ELSE 2
        wrap_mode == CASE options.wrap_mode = "ClampToEdge" -> 0
                       [] options.wrap_mode = "Repeat" -> 4
                       [] options.wrap_mode = "MirroredRepeat" -> 8
    IN  BitOr(BitOr(magnification, minification), wrap_mode)

get_filter(bit) == IF bit THEN "Linear" ELSE "Nearest"

\* a decode that takes bit 4 for MirroredRepeat and bit 8 for Repeat
decode_texture_option_bits_WrapSwapped(bits) ==
    [magnification |-> get_filter(BitAnd(bits, 1) > 0),
     minification |-> get_filter(BitAnd(bits, 2) > 0),
     wrap_mode |-> IF BitAnd(bits, 4) > 0 THEN "MirroredRepeat"
                   ELSE IF BitAnd(bits, 8) > 0 THEN "Repeat"
                   ELSE "ClampToEdge"]

decode_texture_option_bits(bits) ==
    [magnification |-> get_filter(BitAnd(bits, 1) > 0),
     minification |-> get_filter(BitAnd(bits, 2) > 0),
     wrap_mode |-> IF BitAnd(bits, 4) > 0 THEN "Repeat"
                   ELSE IF BitAnd(bits, 8) > 0 THEN "MirroredRepeat"
                   ELSE "ClampToEdge"]

\* [Option<NonMaxU64>; 12]
NumSlots == 12
Slots == 0..(NumSlots - 1)
NoIds == [i \in Slots |-> None]

\* LoaderEntry
LoaderEntry(egui_ids, bevy_id, size) ==
    [egui_ids |-> egui_ids, bevy_id |-> bevy_id, size |-> size]

\* EguiTextureId::User(u64)
EguiTextureIdUser(id) == [kind |-> "User", id |-> id]

\* an ids that stops before the last slot
RECURSIVE IdsFrom_SkipLast(_, _)
IdsFrom_SkipLast(entry, i) ==
    IF i >= NumSlots - 1 THEN <<>>
    ELSE (IF IsSome(entry.egui_ids[i])
          THEN << <<entry.bevy_id, EguiTextureIdUser(Unwrap(entry.egui_ids[i])), i>> >>
          ELSE <<>>) \o IdsFrom_SkipLast(entry, i + 1)

\* LoaderEntry::ids, lines 153-157, from slot i on: enumerate, keep the
\* slots that are Some, and yield (bevy_id, egui_id, options)
RECURSIVE IdsFrom(_, _)
IdsFrom(entry, i) ==
    IF i >= NumSlots THEN <<>>
    ELSE (IF IsSome(entry.egui_ids[i])
          THEN << <<entry.bevy_id, EguiTextureIdUser(Unwrap(entry.egui_ids[i])), i>> >>
          ELSE <<>>) \o IdsFrom(entry, i + 1)

\* LoaderEntry::ids (lines 149-159)
ids(entry) == IdsFrom(entry, 0)

(***************************************************************************)
(* into_uri (lines 45-58)                                                  *)
(***************************************************************************)
\* v as u64, for a u32 v
AsU64(v) == <<0, 0, v[1], v[2]>>
\* a | b on u64
U64Or(a, b) == [k \in 1..4 |-> BitOr(a[k], b[k])]

\* v / 10 and v % 10 on u64
DivMod10(v) ==
    LET t1 == v[1]
        t2 == (t1 % 10) * LimbBase + v[2]
        t3 == (t2 % 10) * LimbBase + v[3]
        t4 == (t3 % 10) * LimbBase + v[4]
    IN  [quot |-> <<t1 \div 10, t2 \div 10, t3 \div 10, t4 \div 10>>,
         rem |-> t4 % 10]

RECURSIVE FormatDigits(_)
FormatDigits(v) ==
    IF v = U64Zero THEN <<>>
    ELSE LET d == DivMod10(v)
         IN  Append(FormatDigits(d.quot), DigitChars[d.rem + 1])

\* format!("{}", v) for a u64: decimal, no sign, no leading zeros
FormatU64(v) == IF v = U64Zero THEN <<"0">> ELSE FormatDigits(v)

\* format!("{uuid}"): lower-case hex, hyphenated 8-4-4-4-12
FormatUuid(uuid) ==
    LET hex == [i \in 1..32 |-> HexChars[uuid[i] + 1]]
    IN  SubSeq(hex, 1, 8) \o <<"-">> \o SubSeq(hex, 9, 12) \o <<"-">> \o
        SubSeq(hex, 13, 16) \o <<"-">> \o SubSeq(hex, 17, 20) \o <<"-">> \o
        SubSeq(hex, 21, 32)

\* an into_uri that does not shift the generation
into_uri_NoShift(id) ==
    IF id.kind = "Index"
    THEN LET gen == AsU64(id.generation)
             index == AsU64(id.index)
             combined == U64Or(gen, index)
         IN  SchemePrefix \o IndexPrefix \o FormatU64(combined)
    ELSE SchemePrefix \o UuidPrefix \o FormatUuid(id.uuid)

\* into_uri (lines 46-58)
into_uri(id) ==
    IF id.kind = "Index"
    THEN LET gen == AsU64(id.generation)
             index == AsU64(id.index)
             combined == U64Or(Shl32(gen), index)
         IN  SchemePrefix \o IndexPrefix \o FormatU64(combined)
    ELSE SchemePrefix \o UuidPrefix \o FormatUuid(id.uuid)

\* load, lines 76-78 and 96-115: the AssetId load makes of a uri
UriToBevyId(uri) == IF starts_with(uri, SchemePrefix) THEN ParseBevyId(uri) ELSE Err

(***************************************************************************)
(* Inputs: the uris, options and sizes the callers use                     *)
(***************************************************************************)
\* "bevy://index/5", "bevy://index/05": two keys of AssetIndex 0/5
UriIndex5 == SchemePrefix \o IndexPrefix \o <<"5">>
UriIndex05 == SchemePrefix \o IndexPrefix \o <<"0", "5">>
\* "bevy://uuid/550e8400-e29b-41d4-a716-446655440000"
UriUuid ==
    SchemePrefix \o UuidPrefix \o
    <<"5", "5", "0", "e", "8", "4", "0", "0", "-", "e", "2", "9", "b", "-",
      "4", "1", "d", "4", "-", "a", "7", "1", "6", "-",
      "4", "4", "6", "6", "5", "5", "4", "4", "0", "0", "0", "0">>
\* "http://x", "bevy://garbage", "bevy://index/5x", "bevy://uuid/zz"
UriHttp == <<"h", "t", "t", "p", ":", "/", "/", "x">>
UriGarbage == SchemePrefix \o <<"g", "a", "r", "b", "a", "g", "e">>
UriBadIndex == SchemePrefix \o IndexPrefix \o <<"5", "x">>
UriBadUuid == SchemePrefix \o UuidPrefix \o <<"z", "z">>

ValidUris == {UriIndex5, UriIndex05, UriUuid}
BadUris == {UriHttp, UriGarbage, UriBadIndex, UriBadUuid}
Uris == ValidUris \cup BadUris
\* the uris of the concurrent runs: one valid uri, or two
OneKeyUris == {UriUuid, UriGarbage, UriHttp}
TwoKeyUris == {UriUuid, UriIndex5, UriGarbage, UriHttp}

\* TextureOptions::LINEAR (the default) and LINEAR_REPEAT
OptLinear ==
    [magnification |-> "Linear", minification |-> "Linear", wrap_mode |-> "ClampToEdge"]
OptLinearRepeat ==
    [magnification |-> "Linear", minification |-> "Linear", wrap_mode |-> "Repeat"]
OptionInputs == {OptLinear, OptLinearRepeat}
OneOption == {OptLinear}

\* the uuid 550e8400-e29b-41d4-a716-446655440000
ExampleUuid ==
    <<5, 5, 0, 14, 8, 4, 0, 0, 14, 2, 9, 11, 4, 1, 13, 4,
      10, 7, 1, 6, 4, 4, 6, 6, 5, 5, 4, 4, 0, 0, 0, 0>>

\* u32 values: 0, 1, 2^16 - 1, 2^16, 2^32 - 1
U32Inputs == {<<0, 0>>, <<0, 1>>, <<0, 65535>>, <<1, 0>>, <<65535, 65535>>}
UuidInputs == {ExampleUuid, [i \in 1..32 |-> 0], [i \in 1..32 |-> 15]}
AssetIdInputs ==
    {AssetIdIndex(g, i) : g \in U32Inputs, i \in U32Inputs}
        \cup {AssetIdUuid(u) : u \in UuidInputs}

\* entries with these slots filled, slot i holding the id 40 - 3 * i
SlotSetInputs == {{}, {0}, {3, 7}, {11}, {1, 5, 9}, Slots}
EntryInputs ==
    {LoaderEntry([i \in Slots |-> IF i \in S THEN Some(40 - 3 * i) ELSE None], b, None) :
        S \in SlotSetInputs,
        b \in {AssetIdIndex(<<0, 0>>, <<0, 5>>), AssetIdUuid(ExampleUuid)}}

\* what a function is applied to in the codec runs
CodecInput(kind, value) == [kind |-> kind, value |-> value]

\* egui::Vec2 sizes the backend reports
Sizes == {<<256, 256>>, <<64, 32>>}
OneSize == {<<256, 256>>}

(***************************************************************************)
(* TextureLoadResult                                                       *)
(***************************************************************************)
NoResult == [kind |-> "None", texture |-> None, size |-> None]
Ready(id, size) == [kind |-> "Ready", texture |-> Some(id), size |-> Some(size)]
Pending == [kind |-> "Pending", texture |-> None, size |-> None]
NotSupported == [kind |-> "NotSupported", texture |-> None, size |-> None]
\* load returned r to thread t; minted: the call took an id from the counter
Returned(t, r, minted) == [thread |-> t, value |-> r, minted |-> minted]
\* the last step was no return of a load
NoReturn == Returned(0, NoResult, FALSE)

(***************************************************************************)
(* State                                                                   *)
(***************************************************************************)
VARIABLES
    map,              \* BevyTextureLoader.map: uri -> LoaderEntry
    new,              \* BevyTextureLoader.new: sequence of <<uri, bevy_id>>
    user_id_counter,  \* BevyTextureLoader.user_id_counter
    mapLock,          \* the thread inside map.lock(), or 0
    newLock,          \* the thread inside new.lock(), or 0
    pc,               \* each thread's position
    uri,              \* each thread's uri argument
    key,              \* load: texture_option_bits(texture_options)
    bevy_id,          \* load: the parsed AssetId
    egui_id,          \* load: the id minted at lines 119-120
    size_arg,         \* resolve: the size argument
    result,           \* history: what the last step returned, and to which thread
    issued,           \* history: every value fetch_add returned, in order
    appended,         \* history: bag of the records pushed onto new
    delivered,        \* history: bag of the records drains returned
    nrec,             \* history: per uri, the records pushed by loads that looked
                      \* the uri up after it was last forgotten
    shown,            \* history: per uri and slot, the id the slot held when a
                      \* load of them returned, since the uri was last forgotten
    dropped,          \* history: the uris that had an entry and for which, since
                      \* they were last forgotten, a resolve found none
    input,            \* codec runs: the value a function is applied to
    output,           \* codec runs: the values the functions returned, in order
    inflight          \* backend: the records it drained and has not resolved yet

vars == <<map, new, user_id_counter, mapLock, newLock, pc, uri, key, bevy_id,
          egui_id, size_arg, result, issued, appended, delivered, nrec, shown,
          dropped, input, output, inflight>>

shared == <<map, new, user_id_counter>>
locks == <<mapLock, newLock>>
locals == <<uri, key, bevy_id, egui_id, size_arg>>
history == <<issued, appended, delivered, nrec, shown, dropped>>
codec == <<input, output>>

NoUri == <<>>
EmptyMap == [u \in {} |-> LoaderEntry(NoIds, AssetIdIndex(<<0, 0>>, <<0, 0>>), None)]
NoBevyId == AssetIdIndex(<<0, 0>>, <<0, 0>>)
NoSize == <<0, 0>>
\* no function of the codec runs is being applied
NoInput == CodecInput("none", <<>>)

InitLoader ==
    /\ map = EmptyMap
    /\ new = <<>>
    /\ user_id_counter = 0
    /\ mapLock = 0
    /\ newLock = 0
    /\ pc = [t \in Procs |-> "idle"]
    /\ uri = [t \in Procs |-> NoUri]
    /\ key = [t \in Procs |-> 0]
    /\ bevy_id = [t \in Procs |-> NoBevyId]
    /\ egui_id = [t \in Procs |-> 0]
    /\ size_arg = [t \in Procs |-> NoSize]
    /\ result = NoReturn
    /\ issued = <<>>
    /\ appended = EmptyBag
    /\ delivered = EmptyBag
    /\ nrec = [u \in ValidUris |-> 0]
    /\ shown = [u \in ValidUris |-> NoIds]
    /\ dropped = {}
    /\ inflight = <<>>

Init ==
    /\ InitLoader
    /\ input = NoInput
    /\ output = <<>>

\* the thread's call ends: its position and arguments are gone
Finish(t) ==
    /\ pc' = [pc EXCEPT ![t] = "idle"]
    /\ uri' = [uri EXCEPT ![t] = NoUri]
    /\ key' = [key EXCEPT ![t] = 0]
    /\ bevy_id' = [bevy_id EXCEPT ![t] = NoBevyId]
    /\ egui_id' = [egui_id EXCEPT ![t] = 0]
    /\ size_arg' = [size_arg EXCEPT ![t] = NoSize]

\* load returns r to thread t
Return(t, r, minted) ==
    /\ Finish(t)
    /\ result' = Returned(t, r, minted)

\* forget, forget_all and the backend's calls return nothing
ReturnUnit(t) ==
    /\ Finish(t)
    /\ result' = NoReturn

Goto(t, label) ==
    /\ pc' = [pc EXCEPT ![t] = label]
    /\ result' = NoReturn

RECURSIVE SeqToBag(_)
SeqToBag(q) == IF q = <<>> THEN EmptyBag ELSE SetToBag({Head(q)}) (+) SeqToBag(Tail(q))

\* the record load pushes for uri u
Record(u) == <<u, ParseBevyId(u).value>>
\* how many times record r is in the sequence q
Count(q, r) == CopiesIn(r, SeqToBag(q))

\* HashMap::insert / HashMap::remove on a function
MapInsert(m, k, v) == [x \in (DOMAIN m) \cup {k} |-> IF x = k THEN v ELSE m[x]]
MapRemove(m, k) == [x \in (DOMAIN m) \ {k} |-> m[x]]

\* loads that may still call fetch_add
MayMint(t) == pc[t] \in {"lookup_locked", "mint"}
\* history only: the loads that found no entry of uri u and have not pushed yet
Inserting(u) ==
    Cardinality({t \in Threads :
        /\ pc[t] \in {"mint", "insert", "insert_locked", "push", "push_locked"}
        /\ uri[t] = u})

AllocLeft(M) == user_id_counter + Cardinality({t \in Threads : MayMint(t)}) < M

(***************************************************************************)
(* load (lines 69-134).  A call begins at its first step on shared state;  *)
(* the steps on the thread's own data (the scheme check before it, the     *)
(* parse after the lookup) are taken together with it.                     *)
(***************************************************************************)
\* lines 76-78: not our scheme
LoadNotSupported(t, u, options) ==
    /\ pc[t] = "idle"
    /\ ~starts_with(u, SchemePrefix)
    /\ Return(t, NotSupported, FALSE)
    /\ UNCHANGED <<shared, locks, history>>
    /\ UNCHANGED <<codec, inflight>>

\* lines 76-82: our scheme; the option index is computed; self.map.lock()
LoadCall(t, u, options, M) ==
    /\ pc[t] = "idle"
    /\ AllocLeft(M)
    /\ starts_with(u, SchemePrefix)
    /\ mapLock = 0
    /\ mapLock' = t
    /\ pc' = [pc EXCEPT ![t] = "lookup_locked"]
    /\ uri' = [uri EXCEPT ![t] = u]
    /\ key' = [key EXCEPT ![t] = texture_option_bits(options)]
    /\ result' = NoReturn
    /\ UNCHANGED <<shared, newLock, bevy_id, egui_id, size_arg, history>>
    /\ UNCHANGED <<codec, inflight>>

\* a load that pushes a record whether or not the entry was there
LoadExisting_Enqueue(t) ==
    /\ pc[t] = "lookup_locked"
    /\ uri[t] \in DOMAIN map
    /\ LET entry == map[uri[t]]
           fresh == ~IsSome(entry.egui_ids[key[t]])
           id == IF fresh THEN user_id_counter ELSE Unwrap(entry.egui_ids[key[t]])
       IN  /\ map' = [map EXCEPT ![uri[t]].egui_ids[key[t]] = Some(id)]
           /\ user_id_counter' = IF fresh THEN user_id_counter + 1 ELSE user_id_counter
           /\ issued' = IF fresh THEN Append(issued, id) ELSE issued
           /\ Return(t, IF IsSome(entry.size) THEN Ready(id, Unwrap(entry.size))
                        ELSE Pending, fresh)
           /\ shown' = [shown EXCEPT ![uri[t]][key[t]] = Some(id)]
           /\ new' = Append(new, <<uri[t], entry.bevy_id>>)
           /\ appended' = appended (+) SetToBag({<<uri[t], entry.bevy_id>>})
           /\ nrec' = [nrec EXCEPT ![uri[t]] = @ + 1]
    /\ mapLock' = 0
    /\ UNCHANGED <<newLock, delivered, dropped>>
    /\ UNCHANGED <<codec, inflight>>

\* a load that looks at the size only when the slot was already filled
LoadExisting_SizeFirst(t) ==
    /\ pc[t] = "lookup_locked"
    /\ uri[t] \in DOMAIN map
    /\ LET entry == map[uri[t]]
           fresh == ~IsSome(entry.egui_ids[key[t]])
           id == IF fresh THEN user_id_counter ELSE Unwrap(entry.egui_ids[key[t]])
       IN  /\ map' = [map EXCEPT ![uri[t]].egui_ids[key[t]] = Some(id)]
           /\ user_id_counter' = IF fresh THEN user_id_counter + 1 ELSE user_id_counter
           /\ issued' = IF fresh THEN Append(issued, id) ELSE issued
           /\ Return(t, IF ~fresh /\ IsSome(entry.size)
                        THEN Ready(id, Unwrap(entry.size))
                        ELSE Pending, fresh)
           /\ shown' = [shown EXCEPT ![uri[t]][key[t]] = Some(id)]
    /\ mapLock' = 0
    /\ UNCHANGED <<new, newLock, appended, delivered, nrec, dropped>>
    /\ UNCHANGED <<codec, inflight>>

\* lines 82-94: the entry exists; get_or_insert_with on its slot, then
\* Ready or Pending by its size; the guard is dropped on return
LoadExisting(t) ==
    /\ pc[t] = "lookup_locked"
    /\ uri[t] \in DOMAIN map
    /\ LET entry == map[uri[t]]
           fresh == ~IsSome(entry.egui_ids[key[t]])
           id == IF fresh THEN user_id_counter ELSE Unwrap(entry.egui_ids[key[t]])
       IN  /\ map' = [map EXCEPT ![uri[t]].egui_ids[key[t]] = Some(id)]
           /\ user_id_counter' = IF fresh THEN user_id_counter + 1 ELSE user_id_counter
           /\ issued' = IF fresh THEN Append(issued, id) ELSE issued
           /\ Return(t, IF IsSome(entry.size) THEN Ready(id, Unwrap(entry.size))
                        ELSE Pending, fresh)
           /\ shown' = [shown EXCEPT ![uri[t]][key[t]] = Some(id)]
    /\ mapLock' = 0
    /\ UNCHANGED <<new, newLock, appended, delivered, nrec, dropped>>
    /\ UNCHANGED <<codec, inflight>>

\* a load that takes its id from the counter before it parses the uri
LoadAbsentBad_Minted(t) ==
    /\ pc[t] = "lookup_locked"
    /\ uri[t] \notin DOMAIN map
    /\ ~ParseBevyId(uri[t]).ok
    /\ mapLock' = 0
    /\ user_id_counter' = user_id_counter + 1
    /\ issued' = Append(issued, user_id_counter)
    /\ Return(t, NotSupported, TRUE)
    /\ UNCHANGED <<map, new, newLock, appended, delivered, nrec, shown, dropped>>
    /\ UNCHANGED <<codec, inflight>>

\* lines 82, 94-115: no entry; the guard is dropped at the end of the if
\* let; the uri does not parse: NotSupported
LoadAbsentBad(t) ==
    /\ pc[t] = "lookup_locked"
    /\ uri[t] \notin DOMAIN map
    /\ ~ParseBevyId(uri[t]).ok
    /\ mapLock' = 0
    /\ Return(t, NotSupported, FALSE)
    /\ UNCHANGED <<shared, newLock, history>>
    /\ UNCHANGED <<codec, inflight>>

\* a load that parses the uri and does not keep the AssetId
LoadAbsent_IdNotKept(t) ==
    /\ pc[t] = "lookup_locked"
    /\ uri[t] \notin DOMAIN map
    /\ ParseBevyId(uri[t]).ok
    /\ mapLock' = 0
    /\ Goto(t, "mint")
    /\ UNCHANGED <<shared, newLock, locals, history>>
    /\ UNCHANGED <<codec, inflight>>

\* lines 82, 94-115: no entry; the guard is dropped; the uri parses
LoadAbsent(t) ==
    /\ pc[t] = "lookup_locked"
    /\ uri[t] \notin DOMAIN map
    /\ ParseBevyId(uri[t]).ok
    /\ mapLock' = 0
    /\ bevy_id' = [bevy_id EXCEPT ![t] = ParseBevyId(uri[t]).value]
    /\ Goto(t, "mint")
    /\ UNCHANGED <<shared, newLock, uri, key, egui_id, size_arg, history>>
    /\ UNCHANGED <<codec, inflight>>

\* a counter that returns the value after the add
LoadMint_PostIncrement(t) ==
    /\ pc[t] = "mint"
    /\ egui_id' = [egui_id EXCEPT ![t] = user_id_counter + 1]
    /\ user_id_counter' = user_id_counter + 1
    /\ issued' = Append(issued, user_id_counter + 1)
    /\ Goto(t, "insert")
    /\ UNCHANGED <<map, new, locks, uri, key, bevy_id, size_arg, appended,
                   delivered, nrec, shown, dropped>>
    /\ UNCHANGED <<codec, inflight>>

\* lines 117-120: user_id_counter.fetch_add(1): the value before the add
LoadMint(t) ==
    /\ pc[t] = "mint"
    /\ egui_id' = [egui_id EXCEPT ![t] = user_id_counter]
    /\ user_id_counter' = user_id_counter + 1
    /\ issued' = Append(issued, user_id_counter)
    /\ Goto(t, "insert")
    /\ UNCHANGED <<map, new, locks, uri, key, bevy_id, size_arg, appended,
                   delivered, nrec, shown, dropped>>
    /\ UNCHANGED <<codec, inflight>>

\* line 122: self.map.lock()
LoadLockInsert(t) ==
    /\ pc[t] = "insert"
    /\ mapLock = 0
    /\ mapLock' = t
    /\ Goto(t, "insert_locked")
    /\ UNCHANGED <<shared, newLock, locals, history>>
    /\ UNCHANGED <<codec, inflight>>

\* an insert whose guard lives on to the end of load
LoadInsert_KeepGuard(t) ==
    /\ pc[t] = "insert_locked"
    /\ map' = MapInsert(map, uri[t],
                        LoaderEntry([NoIds EXCEPT ![key[t]] = Some(egui_id[t])],
                                    bevy_id[t], None))
    /\ mapLock' = mapLock
    /\ egui_id' = [egui_id EXCEPT ![t] = 0]
    /\ Goto(t, "push")
    /\ UNCHANGED <<new, user_id_counter, newLock, uri, key, bevy_id, size_arg, history>>
    /\ UNCHANGED <<codec, inflight>>

\* lines 122-129: insert the entry (replacing any entry of the uri); the
\* guard is dropped at the end of the statement; egui_ids is moved
LoadInsert(t) ==
    /\ pc[t] = "insert_locked"
    /\ map' = MapInsert(map, uri[t],
                        LoaderEntry([NoIds EXCEPT ![key[t]] = Some(egui_id[t])],
                                    bevy_id[t], None))
    /\ mapLock' = 0
    /\ egui_id' = [egui_id EXCEPT ![t] = 0]
    /\ Goto(t, "push")
    /\ UNCHANGED <<new, user_id_counter, newLock, uri, key, bevy_id, size_arg, history>>
    /\ UNCHANGED <<codec, inflight>>

\* line 131: self.new.lock()
LoadLockNew(t) ==
    /\ pc[t] = "push"
    /\ newLock = 0
    /\ newLock' = t
    /\ Goto(t, "push_locked")
    /\ UNCHANGED <<shared, mapLock, locals, history>>
    /\ UNCHANGED <<codec, inflight>>

\* a load that returns Pending without pushing the record
LoadPush_NoRecord(t) ==
    /\ pc[t] = "push_locked"
    /\ shown' = IF uri[t] \in DOMAIN map /\ IsSome(map[uri[t]].egui_ids[key[t]])
                THEN [shown EXCEPT ![uri[t]][key[t]] = map[uri[t]].egui_ids[key[t]]]
                ELSE shown
    /\ newLock' = 0
    /\ Return(t, Pending, TRUE)
    /\ UNCHANGED <<map, new, user_id_counter, mapLock, issued, appended, delivered,
                   nrec, dropped>>
    /\ UNCHANGED <<codec, inflight>>

\* a push that replaces the queue by the one record
LoadPush_Overwrite(t) ==
    /\ pc[t] = "push_locked"
    /\ new' = <<(<<uri[t], bevy_id[t]>>)>>
    /\ appended' = appended (+) SetToBag({<<uri[t], bevy_id[t]>>})
    /\ nrec' = [nrec EXCEPT ![uri[t]] = @ + 1]
    /\ shown' = IF uri[t] \in DOMAIN map /\ IsSome(map[uri[t]].egui_ids[key[t]])
                THEN [shown EXCEPT ![uri[t]][key[t]] = map[uri[t]].egui_ids[key[t]]]
                ELSE shown
    /\ newLock' = 0
    /\ Return(t, Pending, TRUE)
    /\ UNCHANGED <<map, user_id_counter, mapLock, issued, delivered, dropped>>
    /\ UNCHANGED <<codec, inflight>>

\* lines 131-133: push the record, drop the guard, return Pending
LoadPush(t) ==
    /\ pc[t] = "push_locked"
    /\ new' = Append(new, <<uri[t], bevy_id[t]>>)
    /\ appended' = appended (+) SetToBag({<<uri[t], bevy_id[t]>>})
    /\ nrec' = [nrec EXCEPT ![uri[t]] = @ + 1]
    /\ shown' = IF uri[t] \in DOMAIN map /\ IsSome(map[uri[t]].egui_ids[key[t]])
                THEN [shown EXCEPT ![uri[t]][key[t]] = map[uri[t]].egui_ids[key[t]]]
                ELSE shown
    /\ newLock' = 0
    /\ Return(t, Pending, TRUE)
    /\ UNCHANGED <<map, user_id_counter, mapLock, issued, delivered, dropped>>
    /\ UNCHANGED <<codec, inflight>>

(***************************************************************************)
(* forget, forget_all (lines 136-142)                                      *)
(***************************************************************************)
\* line 137: self.map.lock()
ForgetCall(t, u) ==
    /\ pc[t] = "idle"
    /\ mapLock = 0
    /\ mapLock' = t
    /\ pc' = [pc EXCEPT ![t] = "forget_locked"]
    /\ uri' = [uri EXCEPT ![t] = u]
    /\ result' = NoReturn
    /\ UNCHANGED <<shared, newLock, key, bevy_id, egui_id, size_arg, history>>
    /\ UNCHANGED <<codec, inflight>>

\* a forget that empties the entry's slots and keeps the entry
ForgetRemove_ClearIds(t) ==
    /\ pc[t] = "forget_locked"
    /\ map' = IF uri[t] \in DOMAIN map
              THEN [map EXCEPT ![uri[t]].egui_ids = NoIds]
              ELSE map
    /\ nrec' = [u \in ValidUris |-> IF u = uri[t] THEN -Inserting(u) ELSE nrec[u]]
    /\ shown' = [u \in ValidUris |-> IF u = uri[t] THEN NoIds ELSE shown[u]]
    /\ dropped' = dropped \ {uri[t]}
    /\ mapLock' = 0
    /\ ReturnUnit(t)
    /\ UNCHANGED <<new, user_id_counter, newLock, issued, appended, delivered>>
    /\ UNCHANGED <<codec, inflight>>

\* a forget that also takes the uri's records out of the queue
ForgetRemove_DropRecords(t) ==
    /\ pc[t] = "forget_locked"
    /\ map' = MapRemove(map, uri[t])
    /\ new' = SelectSeq(new, LAMBDA r : r[1] # uri[t])
    /\ nrec' = [u \in ValidUris |-> IF u = uri[t] THEN -Inserting(u) ELSE nrec[u]]
    /\ shown' = [u \in ValidUris |-> IF u = uri[t] THEN NoIds ELSE shown[u]]
    /\ dropped' = dropped \ {uri[t]}
    /\ mapLock' = 0
    /\ ReturnUnit(t)
    /\ UNCHANGED <<user_id_counter, newLock, issued, appended, delivered>>
    /\ UNCHANGED <<codec, inflight>>

\* line 137: remove(uri)
ForgetRemove(t) ==
    /\ pc[t] = "forget_locked"
    /\ map' = MapRemove(map, uri[t])
    /\ nrec' = [u \in ValidUris |-> IF u = uri[t] THEN -Inserting(u) ELSE nrec[u]]
    /\ shown' = [u \in ValidUris |-> IF u = uri[t] THEN NoIds ELSE shown[u]]
    /\ dropped' = dropped \ {uri[t]}
    /\ mapLock' = 0
    /\ ReturnUnit(t)
    /\ UNCHANGED <<new, user_id_counter, newLock, issued, appended, delivered>>
    /\ UNCHANGED <<codec, inflight>>

\* line 141: self.map.lock()
ForgetAllCall(t) ==
    /\ pc[t] = "idle"
    /\ mapLock = 0
    /\ mapLock' = t
    /\ pc' = [pc EXCEPT ![t] = "forget_all_locked"]
    /\ result' = NoReturn
    /\ UNCHANGED <<shared, newLock, locals, history>>
    /\ UNCHANGED <<codec, inflight>>

\* a forget_all that also resets the counter
ForgetAllClear_ResetCounter(t) ==
    /\ pc[t] = "forget_all_locked"
    /\ map' = EmptyMap
    /\ user_id_counter' = 0
    /\ nrec' = [u \in ValidUris |-> -Inserting(u)]
    /\ shown' = [u \in ValidUris |-> NoIds]
    /\ dropped' = {}
    /\ mapLock' = 0
    /\ ReturnUnit(t)
    /\ UNCHANGED <<new, newLock, issued, appended, delivered>>
    /\ UNCHANGED <<codec, inflight>>

\* line 141: clear()
ForgetAllClear(t) ==
    /\ pc[t] = "forget_all_locked"
    /\ map' = EmptyMap
    /\ nrec' = [u \in ValidUris |-> -Inserting(u)]
    /\ shown' = [u \in ValidUris |-> NoIds]
    /\ dropped' = {}
    /\ mapLock' = 0
    /\ ReturnUnit(t)
    /\ UNCHANGED <<new, user_id_counter, newLock, issued, appended, delivered>>
    /\ UNCHANGED <<codec, inflight>>

(***************************************************************************)
(* The decode backend's side (not in this file: the map and new fields are *)
(* pub(crate)): resolve sets the size of the entry if it is still there,   *)
(* drain_registrations takes the whole of new.                             *)
(***************************************************************************)
ResolveCall(t, u, size) ==
    /\ pc[t] = "idle"
    /\ mapLock = 0
    /\ mapLock' = t
    /\ pc' = [pc EXCEPT ![t] = "resolve_locked"]
    /\ uri' = [uri EXCEPT ![t] = u]
    /\ size_arg' = [size_arg EXCEPT ![t] = size]
    /\ result' = NoReturn
    /\ UNCHANGED <<shared, newLock, key, bevy_id, egui_id, history>>
    /\ UNCHANGED <<codec, inflight>>

ResolveSet(t) ==
    /\ pc[t] = "resolve_locked"
    /\ map' = IF uri[t] \in DOMAIN map
              THEN [map EXCEPT ![uri[t]].size = Some(size_arg[t])]
              ELSE map
    /\ dropped' = IF uri[t] \notin DOMAIN map /\ CopiesIn(Record(uri[t]), appended) > 0
                  THEN dropped \cup {uri[t]}
                  ELSE dropped
    /\ mapLock' = 0
    /\ ReturnUnit(t)
    /\ UNCHANGED <<new, user_id_counter, newLock, issued, appended, delivered, nrec,
                   shown>>
    /\ UNCHANGED <<codec, inflight>>

DrainCall(t) ==
    /\ pc[t] = "idle"
    /\ newLock = 0
    /\ newLock' = t
    /\ pc' = [pc EXCEPT ![t] = "drain_locked"]
    /\ result' = NoReturn
    /\ UNCHANGED <<shared, mapLock, locals, history>>
    /\ UNCHANGED <<codec, inflight>>

DrainTake(t) ==
    /\ pc[t] = "drain_locked"
    /\ new' = <<>>
    /\ delivered' = delivered (+) SeqToBag(new)
    /\ newLock' = 0
    /\ ReturnUnit(t)
    /\ inflight' = IF t = Backend THEN inflight \o new ELSE inflight
    /\ UNCHANGED <<map, user_id_counter, mapLock, issued, appended, nrec, shown,
                   dropped>>
    /\ UNCHANGED codec

\* the backend's resolve of the oldest record it drained: decoding done, it
\* locks the map to write the size
BackendResolveCall(size) ==
    /\ pc[Backend] = "idle"
    /\ inflight # <<>>
    /\ mapLock = 0
    /\ mapLock' = Backend
    /\ pc' = [pc EXCEPT ![Backend] = "resolve_locked"]
    /\ uri' = [uri EXCEPT ![Backend] = Head(inflight)[1]]
    /\ size_arg' = [size_arg EXCEPT ![Backend] = size]
    /\ inflight' = Tail(inflight)
    /\ result' = NoReturn
    /\ UNCHANGED <<shared, newLock, key, bevy_id, egui_id, history, codec>>

(***************************************************************************)
(* Specifications                                                          *)
(***************************************************************************)
\* one step of thread t, its calls drawing their uris from U, their options
\* from O and their sizes from S, with at most M ids handed out
Step(t, U, O, S, M) ==
    \/ \E u \in U, o \in O : LoadNotSupported(t, u, o)
    \/ \E u \in U, o \in O : LoadCall(t, u, o, M)
    \/ LoadExisting(t)
    \/ LoadAbsentBad(t)
    \/ LoadAbsent(t)
    \/ LoadMint(t)
    \/ LoadLockInsert(t)
    \/ LoadInsert(t)
    \/ LoadLockNew(t)
    \/ LoadPush(t)
    \/ \E u \in U \cap ValidUris : ForgetCall(t, u)
    \/ ForgetRemove(t)
    \/ ForgetAllCall(t)
    \/ ForgetAllClear(t)
    \/ \E u \in U \cap ValidUris, s \in S : ResolveCall(t, u, s)
    \/ ResolveSet(t)
    \/ DrainCall(t)
    \/ DrainTake(t)

\* one step of thread t in a call of the UI side: load, forget, forget_all
Calls(t, U, O, M) ==
    \/ \E u \in U, o \in O : LoadNotSupported(t, u, o)
    \/ \E u \in U, o \in O : LoadCall(t, u, o, M)
    \/ LoadExisting(t)
    \/ LoadAbsentBad(t)
    \/ LoadAbsent(t)
    \/ LoadMint(t)
    \/ LoadLockInsert(t)
    \/ LoadInsert(t)
    \/ LoadLockNew(t)
    \/ LoadPush(t)
    \/ \E u \in U \cap ValidUris : ForgetCall(t, u)
    \/ ForgetRemove(t)
    \/ ForgetAllCall(t)
    \/ ForgetAllClear(t)

\* one step of the backend following the handoff contract: it drains, and
\* calls resolve once for each record it drained
BackendStep(S) ==
    \/ DrainCall(Backend)
    \/ DrainTake(Backend)
    \/ \E s \in S : BackendResolveCall(s)
    \/ ResolveSet(Backend)

\* threads run concurrently, on one valid uri
Next == \E t \in Threads : Step(t, OneKeyUris, OptionInputs, Sizes, MaxAlloc)

Spec == Init /\ [][Next]_vars

\* threads run concurrently, on two valid uris, with one option and one size
NextKeys == \E t \in Threads : Step(t, TwoKeyUris, OneOption, OneSize, MaxAllocKeys)

SpecKeys == Init /\ [][NextKeys]_vars

\* calls run one after another: a single thread, every uri
NextSeq == Step(1, Uris, OptionInputs, Sizes, MaxAllocSeq)

SpecSeq == Init /\ [][NextSeq]_vars

\* the UI threads run concurrently on one valid uri; only the backend
\* drains and resolves
NextBackend ==
    \/ \E t \in Threads : Calls(t, OneKeyUris, OptionInputs, MaxAllocBackend)
    \/ BackendStep(OneSize)

SpecBackend == Init /\ [][NextBackend]_vars

\* the steps of thread t inside a call it has begun; those that take a
\* Mutex wait until it is free
Runs(t) ==
    \/ LoadExisting(t) \/ LoadAbsentBad(t) \/ LoadAbsent(t) \/ LoadMint(t)
    \/ LoadLockInsert(t) \/ LoadInsert(t) \/ LoadLockNew(t) \/ LoadPush(t)
    \/ ForgetRemove(t) \/ ForgetAllClear(t)

\* the backend's periodic drain: it drains again once it has called resolve
\* for every record of its last drain
BackendDrainCall == inflight = <<>> /\ DrainCall(Backend)

\* one step of a backend that works through each drain before the next
BackendPass(S) ==
    \/ BackendDrainCall
    \/ DrainTake(Backend)
    \/ \E s \in S : BackendResolveCall(s)
    \/ ResolveSet(Backend)

NextFair ==
    \/ \E t \in Threads : Calls(t, OneKeyUris, OptionInputs, MaxAllocFair)
    \/ BackendPass(OneSize)

\* a thread inside a call goes on running, and gets a Mutex that is free
\* again and again; the backend keeps draining, resolves every record it
\* drained, and finishes its critical sections. Each process has at most
\* one of its steps enabled at a time, so one condition for each is enough.
Fairness ==
    /\ \A t \in Threads : SF_vars(Runs(t))
    /\ SF_vars(BackendPass(OneSize))

\* as SpecBackend, with threads that go on and a fair backend
SpecFair == Init /\ [][NextFair]_vars /\ Fairness

(***************************************************************************)
(* Codec runs: the pure functions applied to drawn inputs, the loader      *)
(* untouched.  output collects what was returned, in order.                *)
(***************************************************************************)
loader == <<shared, locks, pc, locals, result, history, inflight>>

\* texture_option_bits, of the drawn options or of the options decoded before
CodecEncode ==
    /\ \/ input.kind = "options" /\ Len(output) = 0
          /\ output' = <<texture_option_bits(input.value)>>
       \/ input.kind = "bits" /\ Len(output) = 1
          /\ output' = Append(output, texture_option_bits(output[1]))
    /\ UNCHANGED <<loader, input>>

\* decode_texture_option_bits, of the drawn index or of the index encoded before
CodecDecode ==
    /\ \/ input.kind = "bits" /\ Len(output) = 0
          /\ output' = <<decode_texture_option_bits(input.value)>>
       \/ input.kind = "options" /\ Len(output) = 1
          /\ output' = Append(output, decode_texture_option_bits(output[1]))
    /\ UNCHANGED <<loader, input>>

\* into_uri of the drawn AssetId
CodecIntoUri ==
    /\ input.kind = "id" /\ Len(output) = 0
    /\ output' = <<into_uri(input.value)>>
    /\ UNCHANGED <<loader, input>>

\* load's parse of the uri made before
CodecFromUri ==
    /\ input.kind = "id" /\ Len(output) = 1
    /\ output' = Append(output, UriToBevyId(output[1]))
    /\ UNCHANGED <<loader, input>>

\* ids() of the drawn entry, called a first and a second time
CodecIds ==
    /\ input.kind = "entry" /\ Len(output) < 2
    /\ output' = Append(output, ids(input.value))
    /\ UNCHANGED <<loader, input>>

InitCodec ==
    /\ InitLoader
    /\ \/ \E o \in TextureOptions : input = CodecInput("options", o)
       \/ \E b \in Slots : input = CodecInput("bits", b)
       \/ \E a \in AssetIdInputs : input = CodecInput("id", a)
       \/ \E e \in EntryInputs : input = CodecInput("entry", e)
    /\ output = <<>>

NextCodec ==
    \/ CodecEncode
    \/ CodecDecode
    \/ CodecIntoUri
    \/ CodecFromUri
    \/ CodecIds

SpecCodec == InitCodec /\ [][NextCodec]_vars

(***************************************************************************)
(* Properties                                                              *)
(***************************************************************************)
AllIdle == \A t \in Threads : pc[t] = "idle"

\* C1: of the loads that look a uri up with no forget of it in between, only
\* one finds no entry and pushes: at most one record per uri is pushed by
\* the loads that looked it up since it was last forgotten.
C1_OneRecordPerKey == \A u \in ValidUris : nrec[u] <= 1

\* C2: once a load of (uri, options) has returned, and until the uri is
\* forgotten, the slot keeps the id it held at that return: a second load
\* with the same arguments finds that id.
C2_SameHandle ==
    \A u \in ValidUris : \A i \in Slots :
        IsSome(shown[u][i]) =>
            u \in DOMAIN map /\ map[u].egui_ids[i] = shown[u][i]

\* C3: calls run one after another.  Between calls, a uri that has an entry
\* has had exactly one record pushed since it was last forgotten, however
\* many of its slots loads have filled; with no earlier forget and no drain
\* of it, that one record is in the queue.
C3_OneRecordPerEntry ==
    AllIdle =>
        \A u \in ValidUris :
            /\ nrec[u] = IF u \in DOMAIN map THEN 1 ELSE 0
            /\ ( /\ u \in DOMAIN map
                 /\ CopiesIn(Record(u), delivered) = 0
                 /\ CopiesIn(Record(u), appended) = 1 )
               => Count(new, Record(u)) = 1

\* C3 witness: two options of one uri loaded, nothing resolved or drained,
\* one record in the queue
C3_Witness ==
    /\ AllIdle
    /\ \E u \in DOMAIN map :
        /\ Cardinality({i \in Slots : IsSome(map[u].egui_ids[i])}) = 2
        /\ ~IsSome(map[u].size)
        /\ Count(new, Record(u)) = 1
        /\ Len(new) = 1
        /\ delivered = EmptyBag

\* the steps of thread t that end a critical section on the map
Removes(t) == pc[t] \in {"forget_locked", "forget_all_locked"}
Replaces(t) == pc[t] = "insert_locked"
Resolves(t) == pc[t] = "resolve_locked"
\* thread t's load finds the entry of its uri and returns
FindsEntry(t) == pc[t] = "lookup_locked" /\ pc'[t] = "idle" /\ uri[t] \in DOMAIN map
    /\ UNCHANGED <<codec, inflight>>

\* C4: a resolve that finds the entry sets its size; from then on, and until
\* the entry is removed, replaced or resolved again, the entry keeps that
\* size, and every load that finds the entry returns Ready with the id of
\* its slot and that size; if the slot was empty the load takes a new id
\* from the counter, stores it and returns Ready in that same call.
C4_ReadyOnceResolved ==
    [][ /\ \A t \in Threads :
            /\ (Resolves(t) /\ pc'[t] = "idle" /\ uri[t] \in DOMAIN map)
               => /\ uri[t] \in DOMAIN map'
                  /\ map'[uri[t]].size = Some(size_arg[t])
            /\ (FindsEntry(t) /\ IsSome(map[uri[t]].size))
               => LET entry == map[uri[t]]
                      slot == entry.egui_ids[key[t]]
                      id == IF IsSome(slot) THEN Unwrap(slot) ELSE user_id_counter
                  IN  /\ result' = Returned(t, Ready(id, Unwrap(entry.size)), ~IsSome(slot))
                      /\ map'[uri[t]].egui_ids[key[t]] = Some(id)
                      /\ map'[uri[t]].size = entry.size
                      /\ ~IsSome(slot)
                         => /\ user_id_counter' = user_id_counter + 1
                            /\ \A i \in 1..Len(issued) : issued[i] # id
        /\ \A u \in DOMAIN map :
            ( /\ IsSome(map[u].size)
              /\ \A t \in Threads :
                    (Removes(t) \/ Replaces(t) \/ Resolves(t)) => pc'[t] = pc[t] )
            => u \in DOMAIN map' /\ map'[u].size = map[u].size
      ]_vars

\* C4 witness: a load has just returned Ready with an id it took from the
\* counter in that call, for an entry whose size was resolved before
C4_Witness ==
    /\ result.value.kind = "Ready"
    /\ result.minted
    /\ \E u \in DOMAIN map :
        /\ map[u].size = result.value.size
        /\ map[u].egui_ids[7] = result.value.texture
        /\ IsSome(map[u].egui_ids[3])

\* C5: forget removes the entry; a resolve that finds no entry changes
\* neither the map, the queue nor the counter; a load that then finds no
\* entry takes a new id, inserts an entry with no size, the parsed AssetId
\* and that id in the requested slot only, pushes the record of the uri and
\* returns Pending.
C5_ForgetThenResolve ==
    [][ \A t \in Threads :
          /\ (pc[t] = "forget_locked" /\ pc'[t] = "idle") => uri[t] \notin DOMAIN map'
          /\ (Resolves(t) /\ pc'[t] = "idle" /\ uri[t] \notin DOMAIN map)
             => UNCHANGED <<map, new, user_id_counter>>
          /\ (pc[t] = "lookup_locked" /\ pc'[t] # pc[t] /\ uri[t] \notin DOMAIN map
                /\ ParseBevyId(uri[t]).ok)
             => pc'[t] = "mint" /\ UNCHANGED <<map, new, user_id_counter>>
          /\ (pc[t] = "mint" /\ pc'[t] # pc[t])
             => /\ pc'[t] = "insert"
                /\ \A i \in 1..Len(issued) : issued[i] # egui_id'[t]
                /\ user_id_counter' = user_id_counter + 1
          /\ (pc[t] = "insert_locked" /\ pc'[t] # pc[t])
             => /\ pc'[t] = "push"
                /\ uri[t] \in DOMAIN map'
                /\ map'[uri[t]] =
                     LoaderEntry([NoIds EXCEPT ![key[t]] = Some(egui_id[t])],
                                 ParseBevyId(uri[t]).value, None)
          /\ (pc[t] = "push_locked" /\ pc'[t] # pc[t])
             => /\ new' = Append(new, Record(uri[t]))
                /\ result' = Returned(t, Pending, TRUE)
      ]_vars

\* C5 witness: a uri had an entry, was forgotten, a resolve of it found no
\* entry, and a load of it has now returned Pending, leaving an entry with
\* no size and one slot filled, and its record at the end of the queue
C5_Witness ==
    /\ AllIdle
    /\ result.value.kind = "Pending"
    /\ result.minted
    /\ \E u \in dropped :
        /\ u \in DOMAIN map
        /\ ~IsSome(map[u].size)
        /\ Cardinality({i \in Slots : IsSome(map[u].egui_ids[i])}) = 1
        /\ CopiesIn(Record(u), appended) = 2
        /\ Len(new) > 0
        /\ new[Len(new)] = Record(u)

\* every place that holds an id: a slot of an entry, or a load between
\* taking its id and inserting it
Holders ==
    {<<u, i>> : u \in DOMAIN map, i \in Slots} \cup {<<t>> : t \in Threads}
Holds(h) ==
    IF Len(h) = 2 THEN map[h[1]].egui_ids[h[2]]
    ELSE IF pc[h[1]] \in {"insert", "insert_locked"} THEN Some(egui_id[h[1]])
    ELSE None

HoldersOf(id) == {h \in Holders : Holds(h) = Some(id)}

IdsDistinct ==
    /\ \A i, j \in 1..Len(issued) : i # j => issued[i] # issued[j]
    /\ \A i \in 1..Len(issued) : Cardinality(HoldersOf(issued[i])) <= 1
    /\ \A h \in Holders :
         IsSome(Holds(h)) => \E i \in 1..Len(issued) : issued[i] = Unwrap(Holds(h))

\* C6: the counter never decreases; the values it has returned are pairwise
\* different; no two places hold the same id, and every id held was
\* returned by the counter.
C6_HandlesUnique ==
    [][ /\ user_id_counter' >= user_id_counter
        /\ IdsDistinct'
      ]_vars

\* C6 witness: an id was issued and its entry forgotten; the entry there now
\* holds another id
C6_Witness ==
    /\ Len(issued) = 2
    /\ \E h \in Holders : Holds(h) = Some(issued[2])
    /\ \A h \in Holders : Holds(h) # Some(issued[1])
    /\ DOMAIN map # {}

\* the uris load owns
Owned(u) == starts_with(u, SchemePrefix) /\ ParseBevyId(u).ok

\* C7: a load of a uri that is not owned changes neither the map, the queue
\* nor the counter, at any of its steps, and returns NotSupported.
C7_NotSupportedNoEffect ==
    [][ \A t \in Threads :
          /\ (pc[t] = "idle" /\ pc'[t] = "lookup_locked" /\ ~Owned(uri'[t]))
             => UNCHANGED <<map, new, user_id_counter>>
          /\ (pc[t] = "lookup_locked" /\ pc'[t] # pc[t] /\ ~Owned(uri[t]))
             => /\ UNCHANGED <<map, new, user_id_counter>>
                /\ result' = Returned(t, NotSupported, FALSE)
          /\ (result'.thread = t /\ result'.value = NotSupported)
             => UNCHANGED <<map, new, user_id_counter>>
      ]_vars

\* C7 witness: NotSupported has just been returned while the map, the queue
\* and the counter are not in their initial state
C7_Witness ==
    /\ result.value = NotSupported
    /\ DOMAIN map # {}
    /\ new # <<>>
    /\ user_id_counter > 0

\* C8: the counter is the number of ids issued and the n-th id issued is
\* n - 1; an id returned Ready was issued, and is the last one issued when
\* the call that returns it took it from the counter.
C8_HandleNumbering ==
    /\ user_id_counter = Len(issued)
    /\ \A n \in 1..Len(issued) : issued[n] = n - 1
    /\ result.value.kind = "Ready"
       => /\ Unwrap(result.value.texture) \in 0..(user_id_counter - 1)
          /\ result.minted => Unwrap(result.value.texture) = user_id_counter - 1

\* C8 witness: the example's last state: the uuid uri loaded with the default
\* options (one record pushed, with the decoded uuid), resolved to 256x256,
\* and a load with wrap mode Repeat has just returned Ready with id 1
C8_Witness ==
    /\ result = Returned(result.thread, Ready(1, <<256, 256>>), TRUE)
    /\ issued = <<0, 1>>
    /\ UriUuid \in DOMAIN map
    /\ map[UriUuid].egui_ids[texture_option_bits(OptLinear)] = Some(0)
    /\ map[UriUuid].egui_ids[texture_option_bits(OptLinearRepeat)] = Some(1)
    /\ map[UriUuid].size = Some(<<256, 256>>)
    /\ appended = SetToBag({<<UriUuid, AssetIdUuid(ExampleUuid)>>})

\* C9: every record pushed is either still in the queue or was returned by
\* a drain, as many times as it was pushed.
C9_DrainExactlyOnce == appended = SeqToBag(new) (+) delivered

\* C9 witness: a drain holds the queue's lock with a record to take, after
\* an earlier drain returned one, while a load waits to push another
C9_Witness ==
    /\ \E t \in Threads : pc[t] = "drain_locked"
    /\ \E t \in Threads : pc[t] = "push"
    /\ Len(new) > 0
    /\ delivered # EmptyBag

\* the steps that go on with a call of thread t
Advance(t) ==
    \/ LoadExisting(t) \/ LoadAbsentBad(t) \/ LoadAbsent(t) \/ LoadMint(t)
    \/ LoadLockInsert(t) \/ LoadInsert(t) \/ LoadLockNew(t) \/ LoadPush(t)
    \/ ForgetRemove(t) \/ ForgetAllClear(t) \/ ResolveSet(t) \/ DrainTake(t)

MapLocked == {"lookup_locked", "insert_locked", "forget_locked", "forget_all_locked",
              "resolve_locked"}
NewLocked == {"push_locked", "drain_locked"}

\* C10: a thread holds the map's lock exactly inside its critical sections
\* on the map, the queue's lock exactly inside those on the queue, never
\* both; and a thread inside a call can step, or waits for a lock whose
\* holder can step.
C10_OneLockNoDeadlock ==
    \A t \in Threads :
        /\ (mapLock = t) <=> (pc[t] \in MapLocked)
        /\ (newLock = t) <=> (pc[t] \in NewLocked)
        /\ ~(mapLock = t /\ newLock = t)
        /\ pc[t] # "idle"
           => \/ ENABLED Advance(t)
              \/ \E o \in Threads \ {t} :
                    /\ (pc[t] = "insert" /\ mapLock = o) \/ (pc[t] = "push" /\ newLock = o)
                    /\ ENABLED Advance(o)

\* C10 witness: one thread is inside the map's lock, another inside the
\* queue's
C10_Witness ==
    /\ mapLock # 0
    /\ newLock # 0
    /\ mapLock # newLock

\* C11: ids() of an entry yields, for every filled slot, exactly one tuple
\* with that slot's index, and none for an empty slot; the indices strictly
\* increase; each tuple carries the entry's bevy_id and the id held in its
\* slot; a second call on the same entry yields the same sequence.
C11_IdsPerFilledSlot ==
    input.kind = "entry" =>
        /\ \A k \in 1..Len(output) :
            LET entry == input.value
                yielded == output[k]
            IN  /\ \A i \in Slots :
                      Cardinality({j \in 1..Len(yielded) : yielded[j][3] = i})
                          = IF IsSome(entry.egui_ids[i]) THEN 1 ELSE 0
                /\ \A j \in 1..Len(yielded) :
                      /\ yielded[j][3] \in Slots
                      /\ yielded[j][1] = entry.bevy_id
                      /\ yielded[j][2].kind = "User"
                      /\ Some(yielded[j][2].id) = entry.egui_ids[yielded[j][3]]
                /\ \A j \in 1..(Len(yielded) - 1) : yielded[j][3] < yielded[j + 1][3]
        /\ Len(output) = 2 => output[1] = output[2]

\* C11 witness: ids() was called twice on an entry whose slots 1, 5, 9 and
\* no others are filled
C11_Witness ==
    /\ input.kind = "entry"
    /\ Len(output) = 2
    /\ {i \in Slots : IsSome(input.value.egui_ids[i])} = {1, 5, 9}
    /\ Len(output[2]) = 3

\* C12: texture_option_bits of any options is an index of the 12 slots, and
\* decoding it gives the options back; decode_texture_option_bits of any
\* index below 12 is a TextureOptions value, and encoding it gives the index
\* back.  (All 12 options and all 12 indices are drawn, so the two functions
\* are inverse bijections.)
C12_OptionCodecBijection ==
    /\ input.kind = "options" =>
          /\ Len(output) >= 1 => output[1] \in Slots
          /\ Len(output) = 2 => output[2] = input.value
    /\ input.kind = "bits" =>
          /\ Len(output) >= 1 => output[1] \in TextureOptions
          /\ Len(output) = 2 => output[2] = input.value

\* C12 witness: Linear/Linear/MirroredRepeat was encoded to 11 and decoded
C12_Witness ==
    /\ input.kind = "options"
    /\ input.value.wrap_mode = "MirroredRepeat"
    /\ Len(output) = 2
    /\ output[1] = NumSlots - 1

\* C13: for every AssetId, load's parse of into_uri(id) succeeds and gives
\* id back; for an Index id the uri is "bevy://index/" followed by the
\* decimal text of the u64 with generation in its high 32 bits and index in
\* its low 32 bits.
C13_UriRoundTrip ==
    input.kind = "id" =>
        /\ Len(output) >= 1 /\ input.value.kind = "Index" =>
              /\ starts_with(output[1], SchemePrefix \o IndexPrefix)
              /\ parse_u64(SliceFrom(output[1], Len(SchemePrefix \o IndexPrefix)))
                    = Ok(input.value.generation \o input.value.index)
        /\ Len(output) >= 1 /\ input.value.kind = "Uuid" =>
              starts_with(output[1], SchemePrefix \o UuidPrefix)
        /\ Len(output) = 2 => output[2] = Ok(input.value)

\* C13 witness: the index id with generation 1 and index 2^32 - 1 was turned
\* into "bevy://index/8589934591" and parsed back
C13_Witness ==
    /\ input.kind = "id"
    /\ input.value = AssetIdIndex(<<0, 1>>, <<65535, 65535>>)
    /\ Len(output) = 2
    /\ output[1] = SchemePrefix \o IndexPrefix \o
                      <<"8", "5", "8", "9", "9", "3", "4", "5", "9", "1">>
    /\ output[2].ok

\* C14: the step of forget that removes leaves the map without the uri and
\* with every other entry as it was (the map as it was if the uri had no
\* entry); the step of forget_all leaves the map empty; these steps, and
\* the steps that begin the two calls, change neither the queue nor the
\* counter.
C14_ForgetFrame ==
    [][ \A t \in Threads :
          /\ (pc[t] = "forget_locked" /\ pc'[t] = "idle")
             => /\ DOMAIN map' = DOMAIN map \ {uri[t]}
                /\ \A u \in DOMAIN map' : map'[u] = map[u]
                /\ uri[t] \notin DOMAIN map => map' = map
                /\ UNCHANGED <<new, user_id_counter>>
          /\ (pc[t] = "forget_all_locked" /\ pc'[t] = "idle")
             => /\ DOMAIN map' = {}
                /\ UNCHANGED <<new, user_id_counter>>
          /\ (pc[t] = "idle" /\ pc'[t] \in {"forget_locked", "forget_all_locked"})
             => UNCHANGED <<map, new, user_id_counter>>
      ]_vars

\* C14 witness: a forget is about to remove one of two entries, the other
\* with its size set, while the queue is not empty and ids were issued
C14_Witness ==
    \E t \in Threads :
        /\ pc[t] = "forget_locked"
        /\ uri[t] \in DOMAIN map
        /\ \E u \in DOMAIN map : u # uri[t] /\ IsSome(map[u].size)
        /\ new # <<>>
        /\ user_id_counter > 0

\* C15: no two entries present at the same time hold the same AssetId, so
\* for each AssetId and slot the map holds at most one id.
C15_OneEntryPerResource ==
    \A u, v \in DOMAIN map : u # v => map[u].bevy_id # map[v].bevy_id

\* C16: with the backend following the handoff contract, a resolve that
\* finds the entry finds its size absent (the size is written once), and
\* in a step that neither removes nor replaces the entry a size that is
\* present stays as it is.
C16_SizeSetOnce ==
    [][ /\ ( /\ pc[Backend] = "resolve_locked"
             /\ pc'[Backend] = "idle"
             /\ uri[Backend] \in DOMAIN map )
           => ~IsSome(map[uri[Backend]].size)
        /\ \A u \in DOMAIN map :
            ( /\ IsSome(map[u].size)
              /\ \A t \in Threads : (Removes(t) \/ Replaces(t)) => pc'[t] = pc[t] )
            => u \in DOMAIN map' /\ map'[u].size = map[u].size
      ]_vars

\* C17: every entry holds the AssetId its key parses to, and keeps it from
\* step to step while the key has an entry; every record in the queue holds
\* the AssetId its uri parses to; a record is pushed only by a load that has
\* inserted an entry for the record's uri, with the record's AssetId, before.
\* (The map and the queue start empty: their contents are looked at after
\* every step that changes them.)
C17_IdIsDecodedKey ==
    [][ /\ map' # map =>
              \A u \in DOMAIN map' :
                  /\ starts_with(u, SchemePrefix)
                  /\ Ok(map'[u].bevy_id) = ParseBevyId(u)
                  /\ u \in DOMAIN map => map'[u].bevy_id = map[u].bevy_id
        /\ new' # new =>
              /\ \A k \in 1..Len(new') : Ok(new'[k][2]) = ParseBevyId(new'[k][1])
              /\ new' # <<>> =>
                    \E t \in Threads :
                        /\ pc[t] = "push_locked"
                        /\ new' = Append(new, <<uri[t], bevy_id[t]>>)
        /\ \A t \in Threads :
              /\ (pc'[t] = "push_locked" /\ pc[t] # "push_locked")
                 => pc[t] = "push" /\ uri'[t] = uri[t] /\ bevy_id'[t] = bevy_id[t]
              /\ (pc'[t] = "push" /\ pc[t] # "push")
                 => /\ pc[t] = "insert_locked"
                    /\ uri'[t] = uri[t] /\ bevy_id'[t] = bevy_id[t]
                    /\ uri[t] \in DOMAIN map'
                    /\ map'[uri[t]].bevy_id = bevy_id[t]
      ]_vars

\* C17 witness: an index key and a uuid key both have an entry and a record
\* in the queue
C17_Witness ==
    /\ {UriIndex5, UriUuid} \subseteq DOMAIN map
    /\ Len(new) = 2
    /\ new[1][1] # new[2][1]
    /\ map[UriIndex5].bevy_id = AssetIdIndex(<<0, 0>>, <<0, 5>>)
    /\ map[UriUuid].bevy_id = AssetIdUuid(ExampleUuid)

\* C18: a load that finds an entry whose size is present returns Ready with
\* that size; and in every step that is not the removing step of a forget
\* or forget_all, an entry stays, keeps a size that is present and keeps
\* the ids of its filled slots (so Ready, once returned for a uri, is
\* returned with the same size by every later load until a forget).
C18_PendingToReady ==
    [][ /\ \A t \in Threads :
              (FindsEntry(t) /\ IsSome(map[uri[t]].size))
              => /\ result'.thread = t
                 /\ result'.value.kind = "Ready"
                 /\ result'.value.size = map[uri[t]].size
        /\ (\A t \in Procs : Removes(t) => pc'[t] = pc[t])
           => \A u \in DOMAIN map :
                  /\ u \in DOMAIN map'
                  /\ IsSome(map[u].size) => map'[u].size = map[u].size
                  /\ \A i \in Slots :
                        IsSome(map[u].egui_ids[i])
                        => map'[u].egui_ids[i] = map[u].egui_ids[i]
      ]_vars

\* a record of uri u is in the queue, at the backend (drained and not
\* resolved yet, or being resolved), or about to be pushed by a load that
\* has inserted an entry of u
RecordOnItsWay(u) ==
    \/ \E k \in 1..Len(new) : new[k][1] = u
    \/ \E k \in 1..Len(inflight) : inflight[k][1] = u
    \/ pc[Backend] = "resolve_locked" /\ uri[Backend] = u
    \/ \E t \in Threads : pc[t] \in {"push", "push_locked"} /\ uri[t] = u

IsPending(u) == u \in DOMAIN map /\ ~IsSome(map[u].size)

\* C19: with threads that go on and a fair backend, an entry whose size is
\* absent later has its size present, unless its uri is forgotten; and at
\* any time every entry whose size is absent has a record on its way
\* (the runs request the valid uri of OneKeyUris).
C19_NoEntryPendingForever ==
    /\ [](\A u \in ValidUris : IsPending(u) => RecordOnItsWay(u))
    /\ \A u \in OneKeyUris \cap ValidUris : IsPending(u) ~> ~IsPending(u)

\* C19 witness: the backend is writing the size of an entry that replaced,
\* by the insert of a racing load, the entry the drained record was pushed
\* for; the racing load has its own record still to push
C19_Witness ==
    /\ pc[Backend] = "resolve_locked"
    /\ IsPending(uri[Backend])
    /\ \E t \in Threads : pc[t] = "push" /\ uri[t] = uri[Backend]
    /\ new = <<>>
    /\ inflight = <<>>
    /\ Len(issued) = 2

====
